---- MODULE Spec2Model ----
(***************************************************************************)
(* Matching and scoring engine of the provider marketplace backend:        *)
(* GeminiAIService (scoreProvider, findBestMatches and their fallbacks)    *)
(* and the keyword/score fallback of the job matcher; the /find-matches    *)
(* route, matchJobWithProviders and findNearbyProviders; the job           *)
(* controller with the JobRequest document methods.                        *)
(*                                                                         *)
(* Numbers: provider.rating is kept in hundredths (4.52 is 452), so that   *)
(* Math.round((rating / 5) * 100) is a real rounding.  A response text of  *)
(* the external model is a sequence of tokens: "T" prose without braces,   *)
(* "{" and "}" the brace characters, "P" the key/value body of the object  *)
(* the model wrote.                                                        *)
(***************************************************************************)
EXTENDS Integers, Sequences, FiniteSets, TLC

VARIABLES
  envKey,       \* process.env.GEMINI_API_KEY as the constructor reads it
  isDemoMode,   \* GeminiAIService.isDemoMode, set by the constructor
  providers,    \* the provider list handed to findBestMatches
  preferences,  \* clientPreferences handed to findBestMatches
  phase,        \* position of findBestMatches: "idle", "scoring", "returned"
  promises,     \* one entry per provider: the promise of its scoreProvider call
  aiCalls,      \* number of model.generateContent invocations so far
  response,     \* the value findBestMatches resolved to
  scoreLog,     \* calls of getFallbackProviderScore made on their own: input, result
  matchLog,     \* calls of fallbackJobMatching: input, result
  analysis,  \* the analysis object handed to findBestMatches
  completionOrder,  \* indexes of the providers in the order their external calls settled
  mockProviders,    \* the provider pool the /find-matches route filters
  filters,          \* req.body.filters of a /find-matches request
  httpResponse,     \* what the /find-matches handler sent
  openai,           \* utils/ai.js: whether the OpenAI client was created
  jobCall,          \* a call of matchJobWithProviders: input, outcome, result
  nearby,           \* a call of findNearbyProviders: input, result
  job,              \* the JobRequest document in the database, if one was created
  providerDocs,     \* the Provider documents in the database, by provider _id
  applyRequests,    \* the applyForJob requests: position, loaded documents, response
  handled           \* the last request a job handler answered: who, what, the answer

matchVars == <<envKey, isDemoMode, providers, preferences, phase, promises, aiCalls, response,
               analysis, completionOrder>>
logVars == <<scoreLog, matchLog>>
outsideVars == <<mockProviders, filters, httpResponse, openai, jobCall, nearby>>
lifecycleVars == <<job, providerDocs, applyRequests, handled>>
vars == <<envKey, isDemoMode, providers, preferences, phase, promises, aiCalls, response,
          scoreLog, matchLog, analysis, completionOrder,
          mockProviders, filters, httpResponse, openai, jobCall, nearby,
          job, providerDocs, applyRequests, handled>>

----------------------------------------------------------------------------
(* Bounds of the model *)

\* longest provider list whose external calls are explored in every order
MaxProviders == 2

\* longest provider list scored in demo mode
MaxBatch == 12

\* longest provider list handed to fallbackJobMatching
MaxJobProviders == 2

\* number of direct calls of a fallback scorer that are recorded
MaxCalls == 2

\* largest provider pool behind the /find-matches route
MaxPool == 2

\* longest provider list handed to findNearbyProviders
MaxNearby == 2

----------------------------------------------------------------------------
(* Arithmetic helpers *)

\* Math.round(num / den) for num >= 0, den > 0 (halves round up)
Round(num, den) == (2 * num + den) \div (2 * den)

Min(a, b) == IF a < b THEN a ELSE b

----------------------------------------------------------------------------
(* The constructor: API key validation *)

DemoKey == [set |-> TRUE, prefix |-> "demo-key", len |-> 8]

EnvKeys ==
  { [set |-> FALSE, prefix |-> "", len |-> 0],
    [set |-> TRUE, prefix |-> "AIza", len |-> 30],
    [set |-> TRUE, prefix |-> "AIza", len |-> 39] }

\* const apiKey = process.env.GEMINI_API_KEY || 'demo-key'
ApiKey(env) == IF env.set /\ env.len > 0 THEN env ELSE DemoKey

\* apiKey && apiKey !== 'demo-key' && apiKey.startsWith('AIza') && apiKey.length > 30
IsValidKey(apiKey) ==
  /\ apiKey.len > 0
  /\ apiKey # DemoKey
  /\ apiKey.prefix = "AIza"
  /\ apiKey.len > 30

----------------------------------------------------------------------------
(* Provider records and the inputs of one matching request *)

Profiles ==
  { [rating |-> 450, yearsExperience |-> 5],
    [rating |-> 452, yearsExperience |-> 10],
    [rating |-> 200, yearsExperience |-> 1] }

MkProvider(i, prof) ==
  [_id |-> i, rating |-> prof.rating, yearsExperience |-> prof.yearsExperience]

ProviderLists(maxLen) ==
  UNION { { [i \in 1..n |-> MkProvider(i, f[i])] : f \in [1..n -> Profiles] }
          : n \in 0..maxLen }

\* long lists: one profile repeated (k = 1), the first k in turn (k = 2, 3, 4)
ProfileCycle ==
  << [rating |-> 350, yearsExperience |-> 2],
     [rating |-> 450, yearsExperience |-> 5],
     [rating |-> 452, yearsExperience |-> 10],
     [rating |-> 200, yearsExperience |-> 1] >>

LongLists ==
  { [i \in 1..n |-> MkProvider(i, ProfileCycle[((i - 1) % k) + 1])]
    : n \in (MaxProviders + 1)..MaxBatch, k \in 1..4 }

\* projectAnalysis: only interpolated into the prompt, never into a score
Requirements == [detectedServices |-> <<"Plumbing">>, complexityScore |-> 5]

PreferenceValues == { [maxResults |-> 1], [none |-> TRUE] }

----------------------------------------------------------------------------
(* What the external model can answer *)

PayGood ==
  [overallScore |-> 90, skillMatch |-> 90, experienceScore |-> 80,
   reliabilityScore |-> 85, valueScore |-> 70, locationAdvantage |-> 75,
   strengths |-> <<"Exact service match">>, concerns |-> << >>,
   recommendation |-> "HIGHLY_RECOMMENDED"]

PayInconsistent ==
  [overallScore |-> 30, skillMatch |-> 40, experienceScore |-> 20,
   reliabilityScore |-> 35, valueScore |-> 50, locationAdvantage |-> 10,
   strengths |-> <<"Exact service match">>, concerns |-> << >>,
   recommendation |-> "HIGHLY_RECOMMENDED"]

PayOutOfRange ==
  [overallScore |-> 150, skillMatch |-> 120, experienceScore |-> 0 - 5,
   reliabilityScore |-> 85, valueScore |-> 70, locationAdvantage |-> 75,
   strengths |-> <<"Exact service match">>, concerns |-> << >>,
   recommendation |-> "HIGHLY_RECOMMENDED"]

PayMissing == [recommendation |-> "CONSIDER"]

AIPayloads == {PayGood, PayInconsistent, PayOutOfRange, PayMissing}

\* kind "text": generateContent resolved and response.text() is .text, whose
\* token "P" stands for the key/values of .payload;
\* kind "error": the call rejected with an Error (network failure, timeout);
\* kind "nonError": the call rejected with a value that has no constructor
\* (undefined or null).
Outcomes ==
  { [kind |-> "text", text |-> <<"{", "P", "}">>, payload |-> p] : p \in AIPayloads }
  \cup
  { [kind |-> "text", text |-> <<"T", "{", "P", "}", "T">>, payload |-> PayGood],
    [kind |-> "text", text |-> <<"T">>, payload |-> PayMissing],
    [kind |-> "text", text |-> <<"{", "P">>, payload |-> PayGood],
    [kind |-> "text", text |-> <<"{", "T", "}">>, payload |-> PayMissing],
    [kind |-> "text", text |-> <<"{", "P", "}", "T", "{", "P", "}">>, payload |-> PayGood],
    [kind |-> "error"],
    [kind |-> "nonError"] }

----------------------------------------------------------------------------
(* parseAIResponse and its helpers *)

\* text.match(/\{[\s\S]*\}/): from the first "{" to the last "}" after it
HasJsonMatch(text) ==
  \E i \in 1..Len(text) : \E j \in (i + 1)..Len(text) : text[i] = "{" /\ text[j] = "}"

JsonMatch(text) ==
  LET i == CHOOSE a \in 1..Len(text) :
             text[a] = "{" /\ \A b \in 1..(a - 1) : text[b] # "{"
      j == CHOOSE a \in 1..Len(text) :
             text[a] = "}" /\ \A b \in (a + 1)..Len(text) : text[b] # "}"
  IN SubSeq(text, i, j)

\* JSON.parse accepts one object: braces around nothing or around key/values
JsonParses(s) == s = <<"{", "}">> \/ s = <<"{", "P", "}">>

JsonParse(s, payload) == IF s = <<"{", "}">> THEN [empty |-> TRUE] ELSE payload

textToStructuredData(text) == [analysis |-> text, structured |-> FALSE, confidence |-> 7]

getDefaultStructure == [error |-> "Unable to parse AI response", fallback |-> TRUE]

parseAIResponse(text, payload) ==
  IF HasJsonMatch(text)
    THEN IF JsonParses(JsonMatch(text))
           THEN JsonParse(JsonMatch(text), payload)
           ELSE getDefaultStructure
    ELSE textToStructuredData(text)

----------------------------------------------------------------------------
(* Fallback scoring *)

\* variant: the fallback result stamped like the AI result (analyzedAt), the
\* clock read as the number of calls made so far
getFallbackProviderScoreStamped(provider, requirements) ==
  [success |-> TRUE,
   providerId |-> provider._id,
   aiScore |->
     [overallScore |-> Round(provider.rating, 5),
      skillMatch |-> 75,
      experienceScore |-> Min(provider.yearsExperience * 5, 100),
      reliabilityScore |-> Round(provider.rating, 5),
      recommendation |-> IF provider.rating > 400 THEN "RECOMMENDED" ELSE "CONSIDER",
      matchReason |-> "Basic compatibility analysis",
      successProbability |-> Round(provider.rating, 5),
      fallback |-> TRUE],
   analyzedAt |-> Len(scoreLog)]

getFallbackProviderScore(provider, requirements) ==
  [success |-> TRUE,
   providerId |-> provider._id,
   aiScore |->
     [overallScore |-> Round(provider.rating, 5),
      skillMatch |-> 75,
      experienceScore |-> Min(provider.yearsExperience * 5, 100),
      reliabilityScore |-> Round(provider.rating, 5),
      recommendation |-> IF provider.rating > 400 THEN "RECOMMENDED" ELSE "CONSIDER",
      matchReason |-> "Basic compatibility analysis",
      successProbability |-> Round(provider.rating, 5),
      fallback |-> TRUE]]

\* variant: the catch block of findBestMatches answering with an error object
getFallbackMatchingError(provs) ==
  [success |-> FALSE,
   matches |-> << >>,
   insights |-> [summary |-> "Failed to find matches", fallback |-> TRUE]]

\* providers.slice(0, 5).map(...) with its fixed insights
getFallbackMatching(provs) ==
  [success |-> TRUE,
   matches |->
     [i \in 1..Min(Len(provs), 5) |->
        [providerId |-> provs[i]._id,
         provider |-> provs[i],
         aiScore |-> [overallScore |-> Round(provs[i].rating, 5),
                      recommendation |-> "CONSIDER",
                      fallback |-> TRUE]]],
   insights |-> [summary |-> "Basic matching results available", fallback |-> TRUE]]

----------------------------------------------------------------------------
(* scoreProvider *)

\* { ...a, ...b }: the keys of b override those of a
Spread(a, b) ==
  [k \in DOMAIN a \cup DOMAIN b |-> IF k \in DOMAIN b THEN b[k] ELSE a[k]]

\* the statements of scoreProvider after `await this.model.generateContent`,
\* for the outcome o of the external call: the promise scoreProvider returned
scoreProviderSettled(provider, requirements, o) ==
  IF o.kind = "text"
    THEN [state |-> "fulfilled", outcome |-> o,
          value |-> [success |-> TRUE,
                     providerId |-> provider._id,
                     aiScore |-> Spread(parseAIResponse(o.text, o.payload),
                                        [realAI |-> TRUE])]]
    ELSE IF o.kind = "error"
      THEN [state |-> "fulfilled", outcome |-> o,
            value |-> getFallbackProviderScore(provider, requirements)]
      \* catch block, line 963: error.constructor.name throws on a value
      \* without constructor, and the async function rejects
      ELSE [state |-> "rejected", outcome |-> o]

\* scoreProvider up to its first await
scoreProviderStart(provider, requirements) ==
  IF isDemoMode
    THEN [state |-> "fulfilled", outcome |-> [kind |-> "none"],
          value |-> getFallbackProviderScore(provider, requirements)]
    ELSE [state |-> "pending"]

----------------------------------------------------------------------------
(* findBestMatches *)

HasScore(s) == "overallScore" \in DOMAIN s.aiScore

\* .filter(score => score.success && score.aiScore.overallScore >= 60)
Qualifies(s) == s.success /\ HasScore(s) /\ s.aiScore.overallScore >= 60

RECURSIVE FilterQualified(_)
FilterQualified(s) ==
  IF s = << >> THEN << >>
  ELSE IF Qualifies(Head(s)) THEN <<Head(s)>> \o FilterQualified(Tail(s))
       ELSE FilterQualified(Tail(s))

\* variant: the comparator with its operands swapped (ascending order)
CompareScoresAscending(a, b) == a.aiScore.overallScore - b.aiScore.overallScore

\* (a, b) => b.aiScore.overallScore - a.aiScore.overallScore
CompareScores(a, b) == b.aiScore.overallScore - a.aiScore.overallScore

\* Array.prototype.sort is stable: x goes behind every element that does not
\* compare after it
RECURSIVE InsertSorted(_, _)
InsertSorted(sorted, x) ==
  IF sorted = << >> THEN <<x>>
  ELSE IF CompareScores(Head(sorted), x) <= 0
         THEN <<Head(sorted)>> \o InsertSorted(Tail(sorted), x)
         ELSE <<x>> \o sorted

RECURSIVE SortMatches(_)
SortMatches(s) ==
  IF s = << >> THEN << >>
  ELSE InsertSorted(SortMatches(SubSeq(s, 1, Len(s) - 1)), s[Len(s)])

\* variant: the slice of getFallbackMatching used for the ranked list
TopMatchesFive == 5

\* .slice(0, 10)
TopMatches == 10

Slice(s, n) == SubSeq(s, 1, Min(Len(s), n))

RECURSIVE SumScores(_)
SumScores(s) ==
  IF s = << >> THEN 0 ELSE Head(s).aiScore.overallScore + SumScores(Tail(s))

\* variant: no suggestions for an empty match list
generateMatchingInsightsBare(matches, projectAnalysis) ==
  IF Len(matches) = 0
    THEN [summary |-> "No qualified providers found for this project.",
          recommendations |-> << >>]
    ELSE [summary |-> "Found qualified providers",
          found |-> Len(matches),
          topCompatibility |-> matches[1].aiScore.overallScore,
          averageScore |-> Round(SumScores(matches), Len(matches)),
          marketHealth |-> IF Len(matches) >= 5 THEN "EXCELLENT"
                           ELSE IF Len(matches) >= 3 THEN "GOOD" ELSE "LIMITED"]

\* variant: the count thresholds taken strictly (> 5, > 3)
generateMatchingInsightsStrict(matches, projectAnalysis) ==
  IF Len(matches) = 0
    THEN [summary |-> "No qualified providers found for this project.",
          recommendations |-> <<"Expand search criteria",
                                "Consider adjusting budget",
                                "Break project into phases">>]
    ELSE [summary |-> "Found qualified providers",
          found |-> Len(matches),
          topCompatibility |-> matches[1].aiScore.overallScore,
          averageScore |-> Round(SumScores(matches), Len(matches)),
          marketHealth |-> IF Len(matches) > 5 THEN "EXCELLENT"
                           ELSE IF Len(matches) > 3 THEN "GOOD" ELSE "LIMITED"]

generateMatchingInsights(matches, projectAnalysis) ==
  IF Len(matches) = 0
    THEN [summary |-> "No qualified providers found for this project.",
          recommendations |-> <<"Expand search criteria",
                                "Consider adjusting budget",
                                "Break project into phases">>]
    ELSE [summary |-> "Found qualified providers",
          found |-> Len(matches),
          topCompatibility |-> matches[1].aiScore.overallScore,
          averageScore |-> Round(SumScores(matches), Len(matches)),
          marketHealth |-> IF Len(matches) >= 5 THEN "EXCELLENT"
                           ELSE IF Len(matches) >= 3 THEN "GOOD" ELSE "LIMITED"]

\* providers.find(p => p._id === match.providerId)
FindProvider(provs, id) ==
  provs[CHOOSE i \in 1..Len(provs) :
          provs[i]._id = id /\ \A j \in 1..(i - 1) : provs[j]._id # id]

\* the try block of findBestMatches after `await Promise.all(...)`
RankMatches(providerScores) ==
  Slice(SortMatches(FilterQualified(providerScores)), TopMatches)

findBestMatchesResult(projectAnalysis, provs, clientPreferences, providerScores) ==
  LET matches == RankMatches(providerScores)
  IN [success |-> TRUE,
      matches |-> [i \in 1..Len(matches) |->
                     Spread(matches[i],
                            [provider |-> FindProvider(provs, matches[i].providerId)])],
      insights |-> generateMatchingInsights(matches, projectAnalysis),
      totalAnalyzed |-> Len(provs),
      qualifiedMatches |-> Len(matches)]

NoResponse == [success |-> FALSE]

\* the parts of the program that take no part in a direct call of the service
NoRouteRequest ==
  /\ mockProviders = << >>
  /\ filters = [none |-> TRUE]
  /\ httpResponse = [state |-> "none"]

NoJobCall == openai = FALSE /\ jobCall = [called |-> FALSE]

NoNearbyCall == nearby = [called |-> FALSE]

NoJob == [exists |-> FALSE]

NoLifecycle ==
  /\ job = NoJob
  /\ providerDocs = << >>
  /\ applyRequests = << >>
  /\ handled = [handler |-> "none"]

\* findBestMatches is called: providers.map starts every scoreProvider, each
\* running to its first await, before Promise.all is awaited
FindBestMatchesCall ==
  /\ phase = "idle"
  /\ phase' = "scoring"
  /\ promises' = [i \in 1..Len(providers) |->
                    scoreProviderStart(providers[i], analysis)]
  /\ aiCalls' = IF isDemoMode THEN aiCalls ELSE aiCalls + Len(providers)
  /\ UNCHANGED completionOrder
  /\ UNCHANGED <<envKey, isDemoMode, providers, preferences, analysis, response>>
  /\ UNCHANGED logVars
  /\ UNCHANGED outsideVars
  /\ UNCHANGED lifecycleVars

AnyRejected == \E i \in 1..Len(promises) : promises[i].state = "rejected"

AllFulfilled == \A i \in 1..Len(promises) : promises[i].state = "fulfilled"

\* variant: scoreProvider repeating its request once after a rejection
GenerateContentSettlesRetrying(i, o) ==
  /\ phase = "scoring"
  /\ ~AnyRejected
  /\ promises[i].state = "pending"
  /\ promises' = [promises EXCEPT ![i] =
                    scoreProviderSettled(providers[i], analysis, o)]
  /\ completionOrder' = Append(completionOrder, i)
  /\ aiCalls' = IF o.kind = "text" THEN aiCalls ELSE aiCalls + 1
  /\ UNCHANGED <<envKey, isDemoMode, providers, preferences, analysis, phase, response>>
  /\ UNCHANGED logVars
  /\ UNCHANGED outsideVars
  /\ UNCHANGED lifecycleVars

\* variant: scoreProvider caching its result on the provider record it was given
GenerateContentSettlesAnnotating(i, o) ==
  /\ phase = "scoring"
  /\ ~AnyRejected
  /\ promises[i].state = "pending"
  /\ promises' = [promises EXCEPT ![i] =
                    scoreProviderSettled(providers[i], analysis, o)]
  /\ completionOrder' = Append(completionOrder, i)
  /\ providers' = [providers EXCEPT ![i] = Spread(@, [scored |-> TRUE])]
  /\ UNCHANGED <<envKey, isDemoMode, preferences, analysis, phase, aiCalls, response>>
  /\ UNCHANGED logVars
  /\ UNCHANGED outsideVars
  /\ UNCHANGED lifecycleVars

\* the external call of provider i settles with outcome o and the rest of
\* scoreProvider runs
GenerateContentSettles(i, o) ==
  /\ phase = "scoring"
  /\ ~AnyRejected
  /\ promises[i].state = "pending"
  /\ promises' = [promises EXCEPT ![i] =
                    scoreProviderSettled(providers[i], analysis, o)]
  /\ completionOrder' = Append(completionOrder, i)
  /\ UNCHANGED <<envKey, isDemoMode, providers, preferences, analysis, phase, aiCalls, response>>
  /\ UNCHANGED logVars
  /\ UNCHANGED outsideVars
  /\ UNCHANGED lifecycleVars

\* variant: the scores collected in the order the calls settled
FindBestMatchesReturnInCompletionOrder ==
  /\ phase = "scoring"
  /\ AllFulfilled
  /\ phase' = "returned"
  /\ response' = findBestMatchesResult(analysis, providers, preferences,
                   IF isDemoMode
                     THEN [i \in 1..Len(promises) |-> promises[i].value]
                     ELSE [k \in 1..Len(completionOrder) |->
                             promises[completionOrder[k]].value])
  /\ UNCHANGED completionOrder
  /\ UNCHANGED <<envKey, isDemoMode, providers, preferences, analysis, promises, aiCalls>>
  /\ UNCHANGED logVars
  /\ UNCHANGED outsideVars
  /\ UNCHANGED lifecycleVars

\* Promise.all resolved: filter, sort, slice, insights
FindBestMatchesReturn ==
  /\ phase = "scoring"
  /\ AllFulfilled
  /\ phase' = "returned"
  /\ response' = findBestMatchesResult(analysis, providers, preferences,
                   [i \in 1..Len(promises) |-> promises[i].value])
  /\ UNCHANGED completionOrder
  /\ UNCHANGED <<envKey, isDemoMode, providers, preferences, analysis, promises, aiCalls>>
  /\ UNCHANGED logVars
  /\ UNCHANGED outsideVars
  /\ UNCHANGED lifecycleVars

\* Promise.all rejected with the first rejection: the catch block
FindBestMatchesCatch ==
  /\ phase = "scoring"
  /\ AnyRejected
  /\ phase' = "returned"
  /\ response' = getFallbackMatching(providers)
  /\ UNCHANGED completionOrder
  /\ UNCHANGED <<envKey, isDemoMode, providers, preferences, analysis, promises, aiCalls>>
  /\ UNCHANGED logVars
  /\ UNCHANGED outsideVars
  /\ UNCHANGED lifecycleVars

\* the service object after its constructor, and one request about to be made
Init ==
  /\ envKey \in EnvKeys
  /\ isDemoMode = ~IsValidKey(ApiKey(envKey))
  /\ providers \in ProviderLists(MaxProviders) \cup (IF isDemoMode THEN LongLists ELSE {})
  /\ preferences \in PreferenceValues
  /\ phase = "idle"
  /\ promises = << >>
  /\ aiCalls = 0
  /\ response = NoResponse
  /\ scoreLog = << >>
  /\ matchLog = << >>
  /\ analysis = Requirements
  /\ completionOrder = << >>
  /\ NoRouteRequest
  /\ NoJobCall
  /\ NoNearbyCall
  /\ NoLifecycle

Next ==
  \/ FindBestMatchesCall
  \/ \E i \in 1..Len(promises) : \E o \in Outcomes : GenerateContentSettles(i, o)
  \/ FindBestMatchesReturn
  \/ FindBestMatchesCatch

Spec == Init /\ [][Next]_vars

----------------------------------------------------------------------------
(* The first version of the service: no key validation, no demo mode *)

\* the constructor builds a client from process.env.GEMINI_API_KEY || 'demo-key'
\* whatever the key is; the service answers a request made with a key it does
\* not accept with an error
OutcomesV1 ==
  IF IsValidKey(ApiKey(envKey)) THEN Outcomes ELSE { [kind |-> "error"] }

\* scoreProvider (first version) after `await this.model.generateContent`:
\* the catch block only logs the error and returns the fallback score
scoreProviderV1Settled(provider, requirements, o) ==
  IF o.kind = "text"
    THEN [state |-> "fulfilled", outcome |-> o,
          value |-> [success |-> TRUE,
                     providerId |-> provider._id,
                     aiScore |-> parseAIResponse(o.text, o.payload)]]
    ELSE [state |-> "fulfilled", outcome |-> o,
          value |-> getFallbackProviderScore(provider, requirements)]

\* findBestMatches (first version) is called: every scoreProvider builds its
\* prompt and invokes generateContent
FindBestMatchesCallV1 ==
  /\ phase = "idle"
  /\ phase' = "scoring"
  /\ promises' = [i \in 1..Len(providers) |-> [state |-> "pending"]]
  /\ aiCalls' = aiCalls + Len(providers)
  /\ UNCHANGED completionOrder
  /\ UNCHANGED <<envKey, isDemoMode, providers, preferences, analysis, response>>
  /\ UNCHANGED logVars
  /\ UNCHANGED outsideVars
  /\ UNCHANGED lifecycleVars

GenerateContentSettlesV1(i, o) ==
  /\ phase = "scoring"
  /\ promises[i].state = "pending"
  /\ promises' = [promises EXCEPT ![i] =
                    scoreProviderV1Settled(providers[i], analysis, o)]
  /\ completionOrder' = Append(completionOrder, i)
  /\ UNCHANGED <<envKey, isDemoMode, providers, preferences, analysis, phase, aiCalls, response>>
  /\ UNCHANGED logVars
  /\ UNCHANGED outsideVars
  /\ UNCHANGED lifecycleVars

\* the first version has no isDemoMode field
InitV1 ==
  /\ envKey \in EnvKeys
  /\ isDemoMode = FALSE
  /\ providers \in ProviderLists(MaxProviders)
  /\ preferences \in PreferenceValues
  /\ phase = "idle"
  /\ promises = << >>
  /\ aiCalls = 0
  /\ response = NoResponse
  /\ scoreLog = << >>
  /\ matchLog = << >>
  /\ analysis = Requirements
  /\ completionOrder = << >>
  /\ NoRouteRequest
  /\ NoJobCall
  /\ NoNearbyCall
  /\ NoLifecycle

NextV1 ==
  \/ FindBestMatchesCallV1
  \/ \E i \in 1..Len(promises) : \E o \in OutcomesV1 : GenerateContentSettlesV1(i, o)
  \/ FindBestMatchesReturn

SpecV1 == InitV1 /\ [][NextV1]_vars

----------------------------------------------------------------------------
(* The fallback scorers called on their own *)

\* provider documents as the job matcher reads them: the categories of
\* provider.services, ratings.average in tenths, experience.years, and
\* whether badges holds one of type 'verified'
JobProfiles ==
  << [categories |-> {"Plumbing"}, ratingsAverage |-> 48, years |-> 15, verified |-> TRUE],
     [categories |-> {"Electrical"}, ratingsAverage |-> 49, years |-> 3, verified |-> FALSE] >>

MkJobProvider(i, prof) ==
  [_id |-> i, categories |-> prof.categories, ratingsAverage |-> prof.ratingsAverage,
   years |-> prof.years, verified |-> prof.verified]

\* provider lists of every length, the two profiles alternating from either one
JobProviderLists ==
  { [i \in 1..n |-> MkJobProvider(i, JobProfiles[((i + k) % 2) + 1])] :
      n \in 1..MaxJobProviders, k \in 0..1 }

JobRequests ==
  { [category |-> "Plumbing"], [category |-> "Electrical"], [category |-> "Roofing"] }

\* Math.random() * 10 in tenths of a point: 0.0 and 9.9
Randoms == {0, 99}

\* the part of the score that does not come from Math.random, in tenths
BaseTenths(jobRequest, provider) ==
  (IF jobRequest.category \in provider.categories THEN 400 ELSE 0)
  + provider.ratingsAverage * 4
  + Min(200, provider.years * 20)
  + (IF provider.verified THEN 100 ELSE 0)

\* the .map callback of fallbackJobMatching, r the value Math.random gave
FallbackJobScore(jobRequest, provider, r) ==
  [providerId |-> provider._id,
   matchScore |-> Round(BaseTenths(jobRequest, provider) + r, 10),
   reasons |-> <<"Category match", "Experience", "Rating">>,
   concerns |-> << >>,
   aiGenerated |-> FALSE]

\* (a, b) => b.matchScore - a.matchScore, stable
RECURSIVE InsertByMatchScore(_, _)
InsertByMatchScore(sorted, x) ==
  IF sorted = << >> THEN <<x>>
  ELSE IF Head(sorted).matchScore - x.matchScore >= 0
         THEN <<Head(sorted)>> \o InsertByMatchScore(Tail(sorted), x)
         ELSE <<x>> \o sorted

RECURSIVE SortByMatchScore(_)
SortByMatchScore(s) ==
  IF s = << >> THEN << >>
  ELSE InsertByMatchScore(SortByMatchScore(SubSeq(s, 1, Len(s) - 1)), s[Len(s)])

\* rs[i] is the value Math.random returned while provider i was scored
fallbackJobMatching(jobRequest, provs, rs) ==
  Slice(SortByMatchScore([i \in 1..Len(provs) |->
                            FallbackJobScore(jobRequest, provs[i], rs[i])]), 3)

CallGetFallbackProviderScore(provider) ==
  /\ Len(scoreLog) + Len(matchLog) < MaxCalls
  /\ scoreLog' = Append(scoreLog,
       [provider |-> provider, requirements |-> Requirements,
        result |-> getFallbackProviderScore(provider, Requirements)])
  /\ UNCHANGED matchVars
  /\ UNCHANGED outsideVars
  /\ UNCHANGED lifecycleVars
  /\ UNCHANGED matchLog

CallFallbackJobMatching(jobRequest, provs, rs) ==
  /\ Len(scoreLog) + Len(matchLog) < MaxCalls
  /\ matchLog' = Append(matchLog,
       [jobRequest |-> jobRequest, providers |-> provs,
        result |-> fallbackJobMatching(jobRequest, provs, rs)])
  /\ UNCHANGED matchVars
  /\ UNCHANGED outsideVars
  /\ UNCHANGED lifecycleVars
  /\ UNCHANGED scoreLog

InitFallback ==
  /\ envKey = [set |-> FALSE, prefix |-> "", len |-> 0]
  /\ isDemoMode = ~IsValidKey(ApiKey(envKey))
  /\ providers = << >>
  /\ preferences = [none |-> TRUE]
  /\ phase = "idle"
  /\ promises = << >>
  /\ aiCalls = 0
  /\ response = NoResponse
  /\ scoreLog = << >>
  /\ matchLog = << >>
  /\ analysis = Requirements
  /\ completionOrder = << >>
  /\ NoRouteRequest
  /\ NoJobCall
  /\ NoNearbyCall
  /\ NoLifecycle

NextFallback ==
  \/ \E prof \in Profiles : CallGetFallbackProviderScore(MkProvider(1, prof))
  \/ \E j \in JobRequests : \E provs \in JobProviderLists :
       \E rs \in [1..Len(provs) -> Randoms] : CallFallbackJobMatching(j, provs, rs)

SpecFallback == InitFallback /\ [][NextFallback]_vars

----------------------------------------------------------------------------
(* The /find-matches route *)

\* entries of the provider pool: category, municipality, services and the
\* verified badge next to what the scorers read; the third has no badges object
MockProfiles ==
  << [category |-> "Plumbing", municipality |-> "Balanga", rating |-> 480,
      yearsExperience |-> 15, services |-> {"Plumbing"}, badges |-> [verified |-> TRUE]],
     [category |-> "Electrical", municipality |-> "Mariveles", rating |-> 490,
      yearsExperience |-> 3, services |-> {"Wiring"}, badges |-> [verified |-> FALSE]],
     [category |-> "Plumbing", municipality |-> "Mariveles", rating |-> 200,
      yearsExperience |-> 1, services |-> {"Pipe repair"}],
     [category |-> "Construction", municipality |-> "Balanga", rating |-> 400,
      yearsExperience |-> 8, services |-> {"Masonry", "Plumbing"},
      badges |-> [verified |-> TRUE]] >>

MkMockProvider(i, prof) == Spread([_id |-> i], prof)

\* pools of every length up to MaxPool, the profiles taken in turn from any one
MockPools ==
  { [i \in 1..n |-> MkMockProvider(i, MockProfiles[((i - 1 + k) % 4) + 1])] :
      n \in 0..MaxPool, k \in 0..3 }

\* req.body.filters: each key may be missing
FilterValues ==
  [municipality : { [given |-> FALSE, value |-> ""], [given |-> TRUE, value |-> "Balanga"] },
   category : { [given |-> FALSE, value |-> ""], [given |-> TRUE, value |-> "Plumbing"] },
   verified : { [given |-> FALSE, value |-> FALSE], [given |-> TRUE, value |-> TRUE],
                [given |-> TRUE, value |-> FALSE] }]

\* a request body without projectAnalysis
NoAnalysis == [undefined |-> TRUE]

\* if (filters.municipality), if (filters.category): a non-empty string
TruthyString(f) == f.given /\ f.value # ""

\* if (filters.verified)
TruthyFlag(f) == f.given /\ f.value

\* variant: a provider without a badges object counted as verified
HasVerifiedBadgeLenient(p) == "badges" \notin DOMAIN p \/ p.badges.verified

\* p.badges?.verified === true
HasVerifiedBadge(p) == "badges" \in DOMAIN p /\ p.badges.verified

RECURSIVE FilterMunicipality(_, _)
FilterMunicipality(s, municipality) ==
  IF s = << >> THEN << >>
  ELSE IF Head(s).municipality = municipality
         THEN <<Head(s)>> \o FilterMunicipality(Tail(s), municipality)
         ELSE FilterMunicipality(Tail(s), municipality)

RECURSIVE FilterCategory(_, _)
FilterCategory(s, category) ==
  IF s = << >> THEN << >>
  ELSE IF Head(s).category = category
         THEN <<Head(s)>> \o FilterCategory(Tail(s), category)
         ELSE FilterCategory(Tail(s), category)

RECURSIVE FilterVerified(_)
FilterVerified(s) ==
  IF s = << >> THEN << >>
  ELSE IF HasVerifiedBadge(Head(s))
         THEN <<Head(s)>> \o FilterVerified(Tail(s))
         ELSE FilterVerified(Tail(s))

\* the three conditional filter passes over mockProviders
AvailableProviders(pool, f) ==
  LET byMunicipality == IF TruthyString(f.municipality)
                          THEN FilterMunicipality(pool, f.municipality.value) ELSE pool
      byCategory == IF TruthyString(f.category)
                      THEN FilterCategory(byMunicipality, f.category.value)
                      ELSE byMunicipality
  IN IF TruthyFlag(f.verified) THEN FilterVerified(byCategory) ELSE byCategory

\* the handler up to its await: the 400 answer, or the filters and the call of
\* findBestMatches, which starts every scoreProvider
FindMatchesHandler ==
  /\ phase = "request"
  /\ IF analysis = NoAnalysis
       THEN /\ httpResponse' = [state |-> "sent", status |-> 400,
                                body |-> [success |-> FALSE]]
            /\ phase' = "refused"
            /\ UNCHANGED <<providers, promises, aiCalls>>
       ELSE /\ providers' = AvailableProviders(mockProviders, filters)
            /\ promises' = [i \in 1..Len(providers') |->
                              scoreProviderStart(providers'[i], analysis)]
            /\ aiCalls' = IF isDemoMode THEN aiCalls ELSE aiCalls + Len(providers')
            /\ phase' = "scoring"
            /\ UNCHANGED httpResponse
  /\ UNCHANGED <<envKey, isDemoMode, preferences, analysis, response, completionOrder>>
  /\ UNCHANGED logVars
  /\ UNCHANGED <<mockProviders, filters, openai, jobCall, nearby>>
  /\ UNCHANGED lifecycleVars

\* the handler after its await: res.json(enhancedResults)
FindMatchesRespond ==
  /\ phase = "returned"
  /\ httpResponse.state = "pending"
  /\ httpResponse' = [state |-> "sent", status |-> 200,
                      body |-> Spread(response, [filters |-> filters,
                                                 preferences |-> preferences,
                                                 aiPowered |-> TRUE])]
  /\ UNCHANGED matchVars
  /\ UNCHANGED logVars
  /\ UNCHANGED <<mockProviders, filters, openai, jobCall, nearby>>
  /\ UNCHANGED lifecycleVars

InitRoute ==
  /\ envKey \in EnvKeys
  /\ isDemoMode = ~IsValidKey(ApiKey(envKey))
  /\ mockProviders \in MockPools
  /\ filters \in FilterValues
  /\ preferences \in PreferenceValues
  /\ analysis \in {Requirements, NoAnalysis}
  /\ httpResponse = [state |-> "pending"]
  /\ phase = "request"
  /\ providers = << >>
  /\ promises = << >>
  /\ aiCalls = 0
  /\ response = NoResponse
  /\ completionOrder = << >>
  /\ scoreLog = << >>
  /\ matchLog = << >>
  /\ NoJobCall
  /\ NoNearbyCall
  /\ NoLifecycle

\* findBestMatches never rejects, so the catch block of the handler (status
\* 500) has no step
NextRoute ==
  \/ FindMatchesHandler
  \/ \E i \in 1..Len(promises) : \E o \in Outcomes : GenerateContentSettles(i, o)
  \/ FindBestMatchesReturn
  \/ FindBestMatchesCatch
  \/ FindMatchesRespond

SpecRoute == InitRoute /\ [][NextRoute]_vars

----------------------------------------------------------------------------
(* matchJobWithProviders *)

JobPayRanked ==
  [matches |-> << [providerId |-> 2, matchScore |-> 85, reasons |-> <<"Local area">>,
                   concerns |-> <<"Busy schedule">>],
                  [providerId |-> 1, matchScore |-> 150] >>]

JobPayZero == [matches |-> << [providerId |-> 1, matchScore |-> 0] >>]

JobPayNoMatches == [note |-> "no providers fit"]

JobPayRepeated ==
  [matches |-> << [providerId |-> 1, matchScore |-> 70],
                  [providerId |-> 1, matchScore |-> 90, reasons |-> <<"Verified">>] >>]

JobPayloads == {JobPayRanked, JobPayZero, JobPayNoMatches, JobPayRepeated}

\* kind "text": the completion resolved, its message content is .text;
\* kind "error": openai.chat.completions.create rejected
JobOutcomes ==
  { [kind |-> "text", text |-> <<"{", "P", "}">>, payload |-> p] : p \in JobPayloads }
  \cup
  { [kind |-> "text", text |-> <<"T", "{", "P", "}">>, payload |-> JobPayRanked],
    [kind |-> "text", text |-> <<"T">>, payload |-> JobPayNoMatches],
    [kind |-> "error"] }

\* match.providerId && match.matchScore (ids are never falsy, 0 is)
ValidJobMatch(m) ==
  "providerId" \in DOMAIN m /\ "matchScore" \in DOMAIN m /\ m.matchScore # 0

RECURSIVE FilterValidJobMatches(_)
FilterValidJobMatches(s) ==
  IF s = << >> THEN << >>
  ELSE IF ValidJobMatch(Head(s)) THEN <<Head(s)>> \o FilterValidJobMatches(Tail(s))
       ELSE FilterValidJobMatches(Tail(s))

Max(a, b) == IF a > b THEN a ELSE b

\* the .map callback of matchJobWithProviders
ValidatedJobMatch(m) ==
  [providerId |-> m.providerId,
   matchScore |-> Max(0, Min(100, m.matchScore)),
   reasons |-> IF "reasons" \in DOMAIN m THEN m.reasons ELSE << >>,
   concerns |-> IF "concerns" \in DOMAIN m THEN m.concerns ELSE << >>,
   aiGenerated |-> TRUE]

\* o is the outcome of the completion request, rs the values Math.random gives
\* if the fallback scorer runs
matchJobWithProviders(jobRequest, provs, o, rs) ==
  IF Len(provs) = 0 THEN << >>
  ELSE IF ~openai THEN fallbackJobMatching(jobRequest, provs, rs)
  ELSE IF o.kind # "text" THEN fallbackJobMatching(jobRequest, provs, rs)
  ELSE LET jsonText == IF HasJsonMatch(o.text) THEN JsonMatch(o.text) ELSE o.text
       IN IF ~JsonParses(jsonText)
            THEN fallbackJobMatching(jobRequest, provs, rs)
            ELSE LET aiResponse == JsonParse(jsonText, o.payload)
                 IN IF "matches" \notin DOMAIN aiResponse
                      \* aiResponse.matches.filter throws, the outer catch block
                      THEN fallbackJobMatching(jobRequest, provs, rs)
                      ELSE LET valid == FilterValidJobMatches(aiResponse.matches)
                           IN Slice(SortByMatchScore(
                                      [i \in 1..Len(valid) |-> ValidatedJobMatch(valid[i])]), 3)

MatchJobWithProvidersCall(jobRequest, provs, o, rs) ==
  /\ phase = "job"
  /\ ~jobCall.called
  /\ jobCall' = [called |-> TRUE, jobRequest |-> jobRequest, providers |-> provs,
                 outcome |-> o,
                 result |-> matchJobWithProviders(jobRequest, provs, o, rs)]
  /\ UNCHANGED matchVars
  /\ UNCHANGED logVars
  /\ UNCHANGED <<mockProviders, filters, httpResponse, openai, nearby>>
  /\ UNCHANGED lifecycleVars

\* the module after its initialisation: the client exists or not
InitJob ==
  /\ openai \in BOOLEAN
  /\ jobCall = [called |-> FALSE]
  /\ phase = "job"
  /\ envKey = [set |-> FALSE, prefix |-> "", len |-> 0]
  /\ isDemoMode = ~IsValidKey(ApiKey(envKey))
  /\ providers = << >>
  /\ preferences = [none |-> TRUE]
  /\ promises = << >>
  /\ aiCalls = 0
  /\ response = NoResponse
  /\ analysis = Requirements
  /\ completionOrder = << >>
  /\ scoreLog = << >>
  /\ matchLog = << >>
  /\ NoRouteRequest
  /\ NoNearbyCall
  /\ NoLifecycle

NextJob ==
  \E j \in JobRequests : \E provs \in JobProviderLists \cup {<< >>} :
    \E o \in (IF openai THEN JobOutcomes ELSE { [kind |-> "none"] }) :
      \E rs \in [1..Len(provs) -> Randoms] : MatchJobWithProvidersCall(j, provs, o, rs)

SpecJob == InitJob /\ [][NextJob]_vars

\* one request to either matcher
InitMatching == InitRoute \/ InitJob

NextMatching == NextRoute \/ NextJob

SpecMatching == InitMatching /\ [][NextMatching]_vars

----------------------------------------------------------------------------
(* Geographic search: calculateDistance and findNearbyProviders *)

\* A point is its offset in metres along one meridian, where the great-circle
\* distance R * c of the Haversine formula is the difference of the offsets.
\* Kilometre values with two decimals are kept in hundredths of a kilometre.

Abs(x) == IF x < 0 THEN 0 - x ELSE x

\* Math.round(distance * 100) / 100, in hundredths of a kilometre
calculateDistance(from, to) == Round(Abs(to - from), 10)

\* the three display forms: metres, kilometres with one decimal, whole kilometres
formatDistance(distance) ==
  IF distance < 100 THEN [value |-> distance * 10, unit |-> "m"]
  ELSE IF distance < 1000 THEN [value |-> Round(distance, 10), unit |-> "km.1"]
  ELSE [value |-> Round(distance, 100), unit |-> "km"]

\* offsets of the providers from the search centre, in metres
NearbyOffsets == {500, 15000, 15004, 15005, 20000, 50000}

\* location.serviceRadius in kilometres (schema default 15)
ServiceRadii == {15, 25}

NearbyProfiles ==
  { [coordinates |-> TRUE, offset |-> d, serviceRadius |-> r] :
      d \in NearbyOffsets, r \in ServiceRadii }
  \cup { [coordinates |-> FALSE, offset |-> 0, serviceRadius |-> 15] }

MkNearbyProvider(i, prof) == Spread([_id |-> i], prof)

NearbyProviderLists ==
  UNION { { [i \in 1..n |-> MkNearbyProvider(i, f[i])] : f \in [1..n -> NearbyProfiles] }
          : n \in 1..MaxNearby }

\* the radiusKm argument: left out (default 15) or given
RadiusArguments == { [given |-> FALSE], [given |-> TRUE, value |-> 20] }

RadiusKm(arg) == IF arg.given THEN arg.value ELSE 15

\* the .map callback: null for a provider without coordinates
WithDistance(centre, provider) ==
  IF ~provider.coordinates THEN [isNull |-> TRUE]
  ELSE Spread(provider,
              [isNull |-> FALSE,
               distance |-> calculateDistance(centre, provider.offset),
               distanceText |-> formatDistance(calculateDistance(centre, provider.offset))])

\* .filter(provider => provider && provider.distance <= radiusKm)
RECURSIVE FilterWithinRadius(_, _)
FilterWithinRadius(s, radiusKm) ==
  IF s = << >> THEN << >>
  ELSE IF ~Head(s).isNull /\ Head(s).distance <= radiusKm * 100
         THEN <<Head(s)>> \o FilterWithinRadius(Tail(s), radiusKm)
         ELSE FilterWithinRadius(Tail(s), radiusKm)

\* (a, b) => a.distance - b.distance, stable
RECURSIVE InsertByDistance(_, _)
InsertByDistance(sorted, x) ==
  IF sorted = << >> THEN <<x>>
  ELSE IF Head(sorted).distance - x.distance <= 0
         THEN <<Head(sorted)>> \o InsertByDistance(Tail(sorted), x)
         ELSE <<x>> \o sorted

RECURSIVE SortByDistance(_)
SortByDistance(s) ==
  IF s = << >> THEN << >>
  ELSE InsertByDistance(SortByDistance(SubSeq(s, 1, Len(s) - 1)), s[Len(s)])

findNearbyProviders(centre, provs, radiusKm) ==
  SortByDistance(FilterWithinRadius([i \in 1..Len(provs) |-> WithDistance(centre, provs[i])],
                                    radiusKm))

FindNearbyProvidersCall(centre, provs, arg) ==
  /\ phase = "nearby"
  /\ ~nearby.called
  /\ nearby' = [called |-> TRUE, centre |-> centre, providers |-> provs,
                radiusKm |-> RadiusKm(arg),
                result |-> findNearbyProviders(centre, provs, RadiusKm(arg))]
  /\ UNCHANGED matchVars
  /\ UNCHANGED logVars
  /\ UNCHANGED <<mockProviders, filters, httpResponse, openai, jobCall>>
  /\ UNCHANGED lifecycleVars

InitNearby ==
  /\ nearby = [called |-> FALSE]
  /\ phase = "nearby"
  /\ envKey = [set |-> FALSE, prefix |-> "", len |-> 0]
  /\ isDemoMode = ~IsValidKey(ApiKey(envKey))
  /\ providers = << >>
  /\ preferences = [none |-> TRUE]
  /\ promises = << >>
  /\ aiCalls = 0
  /\ response = NoResponse
  /\ analysis = Requirements
  /\ completionOrder = << >>
  /\ scoreLog = << >>
  /\ matchLog = << >>
  /\ NoRouteRequest
  /\ NoJobCall
  /\ NoLifecycle

NextNearby ==
  \E provs \in NearbyProviderLists : \E arg \in RadiusArguments :
    FindNearbyProvidersCall(0, provs, arg)

SpecNearby == InitNearby /\ [][NextNearby]_vars

----------------------------------------------------------------------------
(* Vocabulary of the properties *)

Fulfilled(i) == promises[i].state = "fulfilled"

\* the call of provider i ended in the catch block of scoreProvider
Threw(i) ==
  promises[i].state # "pending" /\ promises[i].outcome.kind \in {"error", "nonError"}

TaggedFallback(s) == "fallback" \in DOMAIN s.aiScore /\ s.aiScore.fallback

TaggedAI(s) == "realAI" \in DOMAIN s.aiScore /\ s.aiScore.realAI

NumericFields ==
  {"overallScore", "skillMatch", "experienceScore", "reliabilityScore",
   "valueScore", "locationAdvantage"}

DocumentedRecommendation(score) ==
  IF score >= 80 THEN "HIGHLY_RECOMMENDED"
  ELSE IF score >= 60 THEN "RECOMMENDED"
  ELSE IF score >= 40 THEN "CONSIDER"
  ELSE "NOT_RECOMMENDED"

NoJsonExtractable(text) == ~(HasJsonMatch(text) /\ JsonParses(JsonMatch(text)))

Returned == phase = "returned"

\* findBestMatches returned from its catch block
ReturnedByCatch == Returned /\ "fallback" \in DOMAIN response.insights

ReturnedNormally == Returned /\ ~ReturnedByCatch

\* position of a returned match in the input provider list
InputIndex(m) == CHOOSE i \in 1..Len(providers) : providers[i]._id = m.providerId

QualifiedIndexes ==
  { i \in 1..Len(promises) : Fulfilled(i) /\ Qualifies(promises[i].value) }

----------------------------------------------------------------------------
(* Properties *)

\* C1: in every result of scoreProvider whose overallScore is within 0..100,
\* the recommendation is the label the documented thresholds give for that
\* score (>= 80 highly recommended, >= 60 recommended, >= 40 consider, else
\* not recommended), whatever label the AI response carried.
C1_RecommendationFromScore ==
  \A i \in 1..Len(promises) :
    (Fulfilled(i) /\ HasScore(promises[i].value)
       /\ promises[i].value.aiScore.overallScore \in 0..100)
    => /\ "recommendation" \in DOMAIN promises[i].value.aiScore
       /\ promises[i].value.aiScore.recommendation =
            DocumentedRecommendation(promises[i].value.aiScore.overallScore)

\* C2: without a valid GEMINI_API_KEY no generateContent request is ever
\* issued, and every result of scoreProvider is the fallback score of its
\* provider.
C2_NoRequestWhenUnconfigured ==
  ~IsValidKey(ApiKey(envKey))
  => /\ aiCalls = 0
     /\ \A i \in 1..Len(promises) :
          Fulfilled(i)
          => promises[i].value = getFallbackProviderScore(providers[i], Requirements)

\* C3: no scoreProvider call rejects, and every value it resolves to carries
\* the provider id and an aiScore with an overallScore.
C3_AlwaysWellFormed ==
  \A i \in 1..Len(promises) :
    /\ promises[i].state # "rejected"
    /\ Fulfilled(i)
       => /\ "providerId" \in DOMAIN promises[i].value
          /\ "aiScore" \in DOMAIN promises[i].value
          /\ HasScore(promises[i].value)

\* C4: when the response text holds no JSON object that parses, the result of
\* scoreProvider is getFallbackProviderScore(provider, requirements).
C4_ParseFailureFallsBack ==
  \A i \in 1..Len(promises) :
    (Fulfilled(i) /\ promises[i].outcome.kind = "text"
       /\ NoJsonExtractable(promises[i].outcome.text))
    => promises[i].value = getFallbackProviderScore(providers[i], Requirements)

\* C5: every score field of every scoreProvider result and of every returned
\* match lies within 0..100.
C5_ScoresInRange ==
  /\ \A i \in 1..Len(promises) :
       Fulfilled(i)
       => \A f \in NumericFields \cap DOMAIN promises[i].value.aiScore :
            promises[i].value.aiScore[f] \in 0..100
  /\ Returned
     => \A i \in 1..Len(response.matches) :
          \A f \in NumericFields \cap DOMAIN response.matches[i].aiScore :
            response.matches[i].aiScore[f] \in 0..100

\* C6: with the AI client configured, when findBestMatches is past its batch
\* step there is one result per candidate, the results of the calls that threw
\* are exactly those tagged fallback, and all others are tagged AI.
C6_BatchResilience ==
  (Returned /\ ~isDemoMode)
  => /\ Len(promises) = Len(providers)
     /\ \A i \in 1..Len(promises) :
          /\ Fulfilled(i)
          /\ Threw(i) <=> TaggedFallback(promises[i].value)
          /\ ~Threw(i) <=> TaggedAI(promises[i].value)

\* C7: every match findBestMatches returns, on every return path, has an
\* overallScore of at least 60.
C7_AllMatchesQualified ==
  Returned
  => \A i \in 1..Len(response.matches) :
       response.matches[i].aiScore.overallScore >= 60

\* the order the documentation gives to two returned matches: score, then
\* rating, then yearsExperience, then position in the input list
DocumentedBefore(a, b) ==
  \/ a.aiScore.overallScore > b.aiScore.overallScore
  \/ /\ a.aiScore.overallScore = b.aiScore.overallScore
     /\ \/ a.provider.rating > b.provider.rating
        \/ /\ a.provider.rating = b.provider.rating
           /\ \/ a.provider.yearsExperience > b.provider.yearsExperience
              \/ /\ a.provider.yearsExperience = b.provider.yearsExperience
                 /\ InputIndex(a) < InputIndex(b)

\* score, then position in the input list
ScoreThenInputBefore(a, b) ==
  \/ a.aiScore.overallScore > b.aiScore.overallScore
  \/ /\ a.aiScore.overallScore = b.aiScore.overallScore
     /\ InputIndex(a) < InputIndex(b)

\* C8 as stated: returned matches are ordered by overallScore descending,
\* equal scores by rating descending, then yearsExperience descending, then
\* input order.
C8_TieBreakOrder ==
  Returned
  => \A i \in 1..Len(response.matches) : \A j \in (i + 1)..Len(response.matches) :
       DocumentedBefore(response.matches[i], response.matches[j])

\* C8 amended: on the normal return path the matches are ordered by
\* overallScore descending and equal scores keep their input order; the
\* catch-block result lists the leading providers in input order.
C8_ScoreOrderStable ==
  /\ ReturnedNormally
     => \A i \in 1..Len(response.matches) : \A j \in (i + 1)..Len(response.matches) :
          ScoreThenInputBefore(response.matches[i], response.matches[j])
  /\ ReturnedByCatch
     => \A i \in 1..Len(response.matches) :
          response.matches[i].providerId = providers[i]._id

\* two returned matches tie on the score and the later one has the higher rating
C8_Witness ==
  /\ ReturnedNormally
  /\ \E i \in 1..Len(response.matches) : \E j \in (i + 1)..Len(response.matches) :
       /\ response.matches[i].aiScore.overallScore = response.matches[j].aiScore.overallScore
       /\ response.matches[i].provider.rating < response.matches[j].provider.rating

\* preferences.maxResults, 10 when absent
MaxResultsOf(prefs) == IF "maxResults" \in DOMAIN prefs THEN prefs.maxResults ELSE 10

\* a qualified result that was left out ranks behind every returned match
DroppedRankBehind ==
  \A k \in QualifiedIndexes :
    (\A i \in 1..Len(response.matches) : response.matches[i].providerId # providers[k]._id)
    => \A i \in 1..Len(response.matches) :
         \/ response.matches[i].aiScore.overallScore > promises[k].value.aiScore.overallScore
         \/ /\ response.matches[i].aiScore.overallScore
                 = promises[k].value.aiScore.overallScore
            /\ InputIndex(response.matches[i]) < k

\* C9 as stated: findBestMatches returns the first maxResults entries of the
\* ranked qualified list, maxResults taken from the preferences, 10 if absent.
C9_MaxResultsHonoured ==
  /\ Returned => Len(response.matches) <= MaxResultsOf(preferences)
  /\ ReturnedNormally
     => /\ Len(response.matches)
             = Min(MaxResultsOf(preferences), Cardinality(QualifiedIndexes))
        /\ DroppedRankBehind

\* C9 amended: findBestMatches returns at most 10 matches whatever maxResults
\* the preferences carry; on the normal return path they are the first 10
\* entries of the ranked qualified list; the catch block returns at most 5.
C9_TopTen ==
  /\ Returned => Len(response.matches) <= 10
  /\ ReturnedNormally
     => /\ Len(response.matches) = Min(10, Cardinality(QualifiedIndexes))
        /\ DroppedRankBehind
  /\ ReturnedByCatch => Len(response.matches) = Min(5, Len(providers))

\* more than ten candidates qualified and the list was cut
C9_Witness ==
  /\ ReturnedNormally
  /\ Cardinality(QualifiedIndexes) > 10
  /\ Len(response.matches) = 10

\* two recorded calls of getFallbackProviderScore with equal inputs agree
ScoreLogDeterministic ==
  \A a \in 1..Len(scoreLog) : \A b \in 1..Len(scoreLog) :
    (scoreLog[a].provider = scoreLog[b].provider
       /\ scoreLog[a].requirements = scoreLog[b].requirements)
    => scoreLog[a].result = scoreLog[b].result

SameMatchInput(a, b) ==
  /\ matchLog[a].jobRequest = matchLog[b].jobRequest
  /\ matchLog[a].providers = matchLog[b].providers

GeminiUnavailable ==
  isDemoMode \/ \A i \in 1..Len(promises) : promises[i].state = "pending" \/ Threw(i)

AllFallbackScored(matches) ==
  \A i \in 1..Len(matches) : TaggedFallback(matches[i]) /\ ~TaggedAI(matches[i])

\* the OpenAI client of the job matcher was not created, or its call rejected
OpenAIUnavailable == ~openai \/ jobCall.outcome.kind = "error"

\* C11: when the AI is unconfigured or every AI call fails, findBestMatches
\* returns success with fallback-scored matches only, the /find-matches
\* handler answers 200 with that result, and matchJobWithProviders returns
\* the ranking of its fallback scorer for a non-empty provider list.
C11_NeverFailsWithoutAI ==
  /\ (Returned /\ GeminiUnavailable)
     => /\ response.success
        /\ AllFallbackScored(response.matches)
  /\ (httpResponse.state = "sent" /\ analysis # NoAnalysis /\ GeminiUnavailable)
     => /\ httpResponse.status = 200
        /\ httpResponse.body.success
        /\ AllFallbackScored(httpResponse.body.matches)
  /\ (jobCall.called /\ OpenAIUnavailable)
     => /\ Len(jobCall.result) = Min(3, Len(jobCall.providers))
        /\ \A i \in 1..Len(jobCall.result) : ~jobCall.result[i].aiGenerated

\* with a valid key every external call rejected, and the handler still sent
\* a match
C11_Witness ==
  /\ httpResponse.state = "sent"
  /\ ~isDemoMode
  /\ Len(promises) > 0
  /\ \A i \in 1..Len(promises) : promises[i].state = "pending" \/ Threw(i)
  /\ ReturnedByCatch
  /\ Len(httpResponse.body.matches) > 0

\* C12: when the candidate list is empty findBestMatches returns success with
\* no matches, and its insights carry the "no qualified providers" summary
\* and a non-empty list of suggestions.
C12_EmptyCandidatesEmptyResult ==
  (Returned /\ Len(providers) = 0)
  => /\ response.success
     /\ response.matches = << >>
     /\ response.qualifiedMatches = 0
     /\ response.insights.summary = "No qualified providers found for this project."
     /\ "recommendations" \in DOMAIN response.insights
     /\ Len(response.insights.recommendations) > 0

\* the filters of the route removed every provider of a non-empty pool
C12_Witness ==
  /\ Returned
  /\ Len(mockProviders) > 0
  /\ Len(providers) = 0
  /\ response.matches = << >>

\* the provider records handed back inside the matches are the input records
MatchesCarryInputRecords(resp, provs) ==
  \A i \in 1..Len(resp.matches) :
    \E k \in 1..Len(provs) :
      provs[k]._id = resp.matches[i].providerId /\ resp.matches[i].provider = provs[k]

\* C13: no step of scoreProvider or findBestMatches changes the provider
\* list, a provider record, the analysis object or a field of the service, a
\* settled scoring call is never touched by another one, and the records
\* returned inside the matches are the unchanged input records.
C13_InputsNeverMutated ==
  [][ /\ providers' = providers
      /\ analysis' = analysis
      /\ isDemoMode' = isDemoMode
      /\ envKey' = envKey
      /\ \A i \in 1..Len(promises) :
           (promises[i].state # "pending" /\ Len(promises') = Len(promises))
           => promises'[i] = promises[i]
      /\ phase' = "returned" => MatchesCarryInputRecords(response', providers) ]_vars

\* a request that went through the AI path for one provider and through the
\* fallback path for another has returned
C13_Witness ==
  /\ ReturnedNormally
  /\ \E i \in 1..Len(promises) : TaggedAI(promises[i].value)
  /\ \E i \in 1..Len(promises) : Threw(i) /\ TaggedFallback(promises[i].value)
  /\ Len(response.matches) > 0
  /\ MatchesCarryInputRecords(response, providers)

\* what scoreProvider gives for provider i and the outcome its call had
ResultOfOutcome(i) ==
  IF promises[i].outcome.kind = "none"
    THEN getFallbackProviderScore(providers[i], analysis)
    ELSE scoreProviderSettled(providers[i], analysis, promises[i].outcome).value

MatchResultFields ==
  {"overallScore", "skillMatch", "experienceScore", "reliabilityScore", "valueScore",
   "locationAdvantage", "strengths", "concerns", "recommendation"}

ExactlyOneSourceTag(s) == TaggedAI(s) # TaggedFallback(s)

\* C15: every result of scoreProvider and every returned match carries all
\* fields of a MatchResult and exactly one source tag, on the AI path and on
\* the fallback paths alike.
C15_SameShapeOnBothPaths ==
  /\ \A i \in 1..Len(promises) :
       Fulfilled(i)
       => /\ MatchResultFields \subseteq DOMAIN promises[i].value.aiScore
          /\ ExactlyOneSourceTag(promises[i].value)
  /\ Returned
     => \A i \in 1..Len(response.matches) :
          /\ MatchResultFields \subseteq DOMAIN response.matches[i].aiScore
          /\ ExactlyOneSourceTag(response.matches[i])

\* the pool holds the Plumbing provider (rating 4.8, 15 years) and the
\* Electrical provider (rating 4.9), the request filters by the category of
\* the job, and the service scores with its fallback
PlumbingScenario ==
  /\ isDemoMode
  /\ mockProviders = << MkMockProvider(1, MockProfiles[1]), MkMockProvider(2, MockProfiles[2]) >>
  /\ filters = [municipality |-> [given |-> FALSE, value |-> ""],
                category |-> [given |-> TRUE, value |-> "Plumbing"],
                verified |-> [given |-> FALSE, value |-> FALSE]]

\* C16: in the Plumbing scenario the match set has exactly one entry, the
\* Plumbing provider, with an overallScore of at least 80 and the
\* recommendation highly recommended.
C16_PlumbingJobExample ==
  (Returned /\ PlumbingScenario)
  => /\ Len(response.matches) = 1
     /\ response.matches[1].providerId = 1
     /\ response.matches[1].provider.category = "Plumbing"
     /\ response.matches[1].aiScore.overallScore >= 80
     /\ response.matches[1].aiScore.recommendation = "HIGHLY_RECOMMENDED"

\* provider p satisfies every filter the request supplied
PassesFilters(p, f) ==
  /\ f.municipality.given => p.municipality = f.municipality.value
  /\ f.category.given => p.category = f.category.value
  /\ (f.verified.given /\ f.verified.value) => ("badges" \in DOMAIN p /\ p.badges.verified)

PassesRequestFilters(p) == PassesFilters(p, filters)

\* the handler has called findBestMatches
CandidatesChosen == phase \in {"scoring", "returned"} /\ httpResponse.state # "none"

\* C17: the candidate list handed to findBestMatches is the sub-list of the
\* pool whose providers satisfy every supplied filter, in pool order; an
\* absent filter (and verified: false) excludes nobody.
C17_CandidatesAreFilteredSublist ==
  CandidatesChosen => providers = SelectSeq(mockProviders, PassesRequestFilters)

\* two filters were supplied; one provider of the pool passed, one did not
C17_Witness ==
  /\ CandidatesChosen
  /\ filters.category.given
  /\ filters.verified.given /\ filters.verified.value
  /\ Len(mockProviders) = 2
  /\ Len(providers) = 1
  /\ providers[1] = mockProviders[2]

\* provider i of the call has coordinates and is in the result
KeptNearby(i) ==
  \E k \in 1..Len(nearby.result) : nearby.result[k]._id = nearby.providers[i]._id

\* distance in metres between the centre and provider i of the call
TrueDistance(i) == Abs(nearby.providers[i].offset - nearby.centre)

\* C18: a located provider is kept by the nearby filter exactly when its
\* distance is at most the larger of the search radius and its own service
\* radius.
C18_BroaderRadiusKeeps ==
  nearby.called
  => \A i \in 1..Len(nearby.providers) :
       nearby.providers[i].coordinates
       => (KeptNearby(i)
           <=> TrueDistance(i) <= 1000 * Max(nearby.radiusKm,
                                             nearby.providers[i].serviceRadius))

\* C19: a located provider is kept exactly when its distance is at most
\* radiusKm: kept at exactly radiusKm, dropped at any greater distance.
C19_RadiusExactAndInclusive ==
  nearby.called
  => \A i \in 1..Len(nearby.providers) :
       nearby.providers[i].coordinates
       => (KeptNearby(i) <=> TrueDistance(i) <= 1000 * nearby.radiusKm)

\* the market health the documentation gives for n qualified matches, n > 0
DocumentedMarketHealth(n) ==
  IF n >= 5 THEN "EXCELLENT" ELSE IF n >= 3 THEN "GOOD" ELSE "LIMITED"

QualifiedSet == FilterQualified([i \in 1..Len(promises) |-> promises[i].value])

\* C21: insights.averageScore is the rounded mean of overallScore over the
\* whole qualified set, also when more candidates qualify than are returned.
C21_AverageOverQualifiedSet ==
  (ReturnedNormally /\ Len(response.matches) > 0)
  => response.insights.averageScore = Round(SumScores(QualifiedSet), Len(QualifiedSet))

\* C22: with the AI client configured, from the moment findBestMatches has
\* started its batch (no call has settled yet) to its return, the number of
\* generateContent requests issued equals the number of candidates, whatever
\* failed in between, and no candidate's call settles twice.
C22_OneRequestPerCandidate ==
  (~isDemoMode /\ phase \in {"scoring", "returned"})
  => /\ aiCalls = Len(providers)
     /\ Len(promises) = Len(providers)
     /\ \A a \in 1..Len(completionOrder) : \A b \in 1..Len(completionOrder) :
          completionOrder[a] = completionOrder[b] => a = b
     /\ completionOrder = << >>
        => \A i \in 1..Len(promises) : promises[i].state = "pending"

\* two candidates, one call failed, the request has returned: two requests
C22_Witness ==
  /\ ReturnedNormally
  /\ ~isDemoMode
  /\ Len(providers) = 2
  /\ \E i \in 1..Len(promises) : Threw(i)
  /\ aiCalls = 2

\* the documented weights: skill match 40, experience/reliability 20, value 10,
\* location advantage 20, verified bonus 10
WeightedComponents ==
  {"skillMatch", "experienceScore", "valueScore", "locationAdvantage"}

Clamp(x) == Max(0, Min(100, x))

DocumentedFallbackScore(a, verified) ==
  Clamp(Round(40 * a.skillMatch + 20 * a.experienceScore + 10 * a.valueScore
              + 20 * a.locationAdvantage + (IF verified THEN 1000 ELSE 0), 100))

\* C23: every result of getFallbackProviderScore carries the weighted
\* components, its overallScore is their rounded weighted sum (weights 40, 20,
\* 10, 20 and the verified bonus 10) clamped to 0..100, and its skillMatch is
\* 100 or 0 for a provider without overlapping services.
C23_FallbackIsWeightedSum ==
  \A k \in 1..Len(scoreLog) :
    /\ WeightedComponents \subseteq DOMAIN scoreLog[k].result.aiScore
    /\ scoreLog[k].result.aiScore.skillMatch \in {0, 100}
    /\ scoreLog[k].result.aiScore.overallScore
         = DocumentedFallbackScore(scoreLog[k].result.aiScore, FALSE)

\* the services of provider p intersect the services detected for the job
ServicesIntersect(p) ==
  \E k \in 1..Len(analysis.detectedServices) : analysis.detectedServices[k] \in p.services

\* provider p passes the municipality and verified filters of the request
PassesOtherFilters(p) ==
  /\ filters.municipality.given => p.municipality = filters.municipality.value
  /\ (filters.verified.given /\ filters.verified.value)
     => ("badges" \in DOMAIN p /\ p.badges.verified)

\* C24: with a category filter, a provider that passes the other filters is a
\* candidate exactly when its category equals the requested one or its
\* services intersect the job's detected services.
C24_CategorySoftFallback ==
  (CandidatesChosen /\ filters.category.given)
  => \A i \in 1..Len(mockProviders) :
       PassesOtherFilters(mockProviders[i])
       => ((\E k \in 1..Len(providers) : providers[k] = mockProviders[i])
           <=> (mockProviders[i].category = filters.category.value
                \/ ServicesIntersect(mockProviders[i])))

\* the ids of the providers handed to the matcher
CandidateIds(provs) == { provs[k]._id : k \in 1..Len(provs) }

\* C30: every match returned by matchJobWithProviders, on the AI path as on
\* the fallback path, carries the id of one of the providers it was given.
C30_MatchesReferToCandidates ==
  jobCall.called
  => \A i \in 1..Len(jobCall.result) :
       jobCall.result[i].providerId \in CandidateIds(jobCall.providers)


----------------------------------------------------------------------------
(* Job lifecycle: the job controller and the JobRequest document methods *)

\* number of applyForJob requests that may be in flight together
MaxApply == 2

\* number of users with the client role
MaxClients == 2

\* number of users with the provider role, each with a provider profile
MaxAppliers == 1

ClientUsers == 1..MaxClients

ProviderUsers == (MaxClients + 1)..(MaxClients + MaxAppliers)

Users == ClientUsers \cup ProviderUsers

RoleOf(u) == IF u \in ClientUsers THEN "client" ELSE "provider"

\* a BSON ObjectId, and the string its toString() returns.  User ids are
\* ObjectIds: JobRequest.client and Provider.user are ObjectId refs to User.
ObjectId(n) == [bsontype |-> "ObjectId", hex |-> n]

toString(v) == [bsontype |-> "string", hex |-> v.hex]

\* req.user as the middleware builds it from the user document it loaded
authenticate(u) == [userId |-> ObjectId(u), role |-> RoleOf(u)]

\* Provider.findOne({ user: userId }): the _id of the profile, 0 for null
ProviderOfUser(userId) ==
  IF userId.hex \in ProviderUsers THEN userId.hex - MaxClients ELSE 0

\* a provider document as the schema defaults leave it; average in tenths
NewProviderDoc ==
  [ratings |-> [average |-> 0, count |-> 0, breakdown |-> [k \in 1..5 |-> 0]],
   statistics |-> [jobMatches |-> 0, projectsCompleted |-> 0]]

\* rec[key], or the schema default when the body has no such key
Field(rec, key, default) == IF key \in DOMAIN rec THEN rec[key] ELSE default

\* request bodies of POST /api/jobs: the validated fields alone, or with
\* further paths of the schema
BodyPlain == [category |-> "Plumbing"]

BodyDraft == [category |-> "Plumbing", status |-> "draft"]

BodyInProgress ==
  [category |-> "Plumbing", status |-> "in_progress",
   applications |-> << [_id |-> 1, provider |-> 1, status |-> "accepted"] >>,
   selectedProvider |-> 1]

BodyTwoAccepted ==
  [category |-> "Plumbing",
   applications |-> << [_id |-> 1, provider |-> 1, status |-> "accepted"],
                       [_id |-> 2, provider |-> 2, status |-> "accepted"] >>]

BodyCompleted == [category |-> "Plumbing", status |-> "completed"]

CreateBodies == {BodyPlain, BodyDraft, BodyInProgress, BodyTwoAccepted, BodyCompleted}

\* new JobRequest({ ...req.body, client: userId })
NewJobRequest(body, userId) ==
  [exists |-> TRUE,
   client |-> userId,
   category |-> body.category,
   status |-> Field(body, "status", "active"),
   applications |-> Field(body, "applications", << >>),
   selectedProvider |-> Field(body, "selectedProvider", 0),
   completionDetails |-> [completed |-> FALSE, clientRating |-> 0],
   aiSuggestions |-> << >>,
   isActive |-> TRUE]

\* matches.map(match => ({ provider: match.providerId, ... }))
SuggestionsOf(matches) ==
  [i \in 1..Len(matches) |->
     [provider |-> matches[i].providerId, matchScore |-> matches[i].matchScore,
      reasons |-> matches[i].reasons]]

\* the lists Provider.findNearby hands to createJob
NearbyForJob == { << >> } \cup { l \in JobProviderLists : Len(l) = 1 }

Answer(handler, u, status, before, after) ==
  [handler |-> handler, user |-> u, status |-> status, before |-> before, after |-> after]

\* POST /api/jobs behind authenticate, requireClient and the validation rules
CreateJobHandler(u, valid, body, nearbyProviders, o, rs) ==
  /\ phase = "lifecycle"
  /\ ~job.exists
  /\ LET user == authenticate(u)
         saved == NewJobRequest(body, user.userId)
         matches == matchJobWithProviders(saved, nearbyProviders, o, rs)
         created == IF Len(nearbyProviders) > 0
                      THEN [saved EXCEPT !.aiSuggestions = SuggestionsOf(matches)]
                      ELSE saved
     IN IF user.role # "client"
          THEN /\ handled' = Answer("createJob", u, 403, job, job)
               /\ UNCHANGED job
          ELSE IF ~valid
            THEN /\ handled' = Answer("createJob", u, 400, job, job)
                 /\ UNCHANGED job
            ELSE /\ job' = created
                 /\ handled' = Answer("createJob", u, 201, job, created)
  /\ UNCHANGED <<providerDocs, applyRequests>>
  /\ UNCHANGED matchVars
  /\ UNCHANGED logVars
  /\ UNCHANGED outsideVars

\* app => app.provider.toString() === provider._id.toString()
HasApplied(jobDoc, providerId) ==
  \E k \in 1..Len(jobDoc.applications) : jobDoc.applications[k].provider = providerId

Replied(r, status) == [applyRequests EXCEPT ![r] = [state |-> "done", status |-> status]]

\* applyForJob up to the save inside job.addApplication: the provider profile
\* and the job are loaded, the checks run on the loaded job
ApplyForJobLoad(r, u, valid) ==
  /\ phase = "lifecycle"
  /\ applyRequests[r].state = "idle"
  /\ LET user == authenticate(u)
         providerId == ProviderOfUser(user.userId)
     IN applyRequests' =
          IF user.role # "provider" THEN Replied(r, 403)
          ELSE IF ~valid THEN Replied(r, 400)
          ELSE IF providerId = 0 THEN Replied(r, 403)
          ELSE IF ~job.exists THEN Replied(r, 404)
          ELSE IF job.status # "active" THEN Replied(r, 400)
          ELSE IF HasApplied(job, providerId) THEN Replied(r, 409)
          ELSE [applyRequests EXCEPT ![r] =
                  [state |-> "saving", user |-> u, provider |-> providerId,
                   job |-> job, providerDoc |-> providerDocs[providerId]]]
  /\ UNCHANGED <<job, providerDocs, handled>>
  /\ UNCHANGED matchVars
  /\ UNCHANGED logVars
  /\ UNCHANGED outsideVars

\* the rest of applyForJob: the save of addApplication pushes the new
\* application onto the stored array, then the loaded provider document is
\* saved with its counter raised
ApplyForJobSave(r) ==
  /\ phase = "lifecycle"
  /\ applyRequests[r].state = "saving"
  /\ LET req == applyRequests[r]
     IN /\ job' = [job EXCEPT !.applications =
                     Append(@, [_id |-> 10 + r, provider |-> req.provider,
                                status |-> "pending"])]
        /\ providerDocs' = [providerDocs EXCEPT ![req.provider].statistics.jobMatches =
                              req.providerDoc.statistics.jobMatches + 1]
        /\ applyRequests' = Replied(r, 200)
  /\ UNCHANGED handled
  /\ UNCHANGED matchVars
  /\ UNCHANGED logVars
  /\ UNCHANGED outsideVars


\* job.client.toString() !== userId
NotOwner(jobDoc, userId) == toString(jobDoc.client) # userId

\* this.applications.id(applicationId): the position of the application, 0 for null
ApplicationIndex(jobDoc, applicationId) ==
  IF \E k \in 1..Len(jobDoc.applications) : jobDoc.applications[k]._id = applicationId
    THEN CHOOSE k \in 1..Len(jobDoc.applications) :
           jobDoc.applications[k]._id = applicationId
    ELSE 0

\* JobRequest.methods.acceptApplication, once the application was found
acceptApplication(jobDoc, applicationId) ==
  [jobDoc EXCEPT
     !.applications =
        [k \in 1..Len(jobDoc.applications) |->
           IF jobDoc.applications[k]._id = applicationId
             THEN [jobDoc.applications[k] EXCEPT !.status = "accepted"]
             ELSE IF jobDoc.applications[k].status = "pending"
                    THEN [jobDoc.applications[k] EXCEPT !.status = "rejected"]
                    ELSE jobDoc.applications[k]],
     !.selectedProvider =
        jobDoc.applications[ApplicationIndex(jobDoc, applicationId)].provider,
     !.status = "in_progress"]

\* JobRequest.methods.completeJob
completeJob(jobDoc) ==
  [jobDoc EXCEPT !.status = "completed", !.completionDetails.completed = TRUE]

\* what completeJob does to the provider document; rating is 1..5 here
RatedProvider(doc, rating) ==
  LET newCount == doc.ratings.count + 1
  IN [doc EXCEPT
        !.ratings.average = Round(doc.ratings.average * doc.ratings.count + rating * 10,
                                  newCount),
        !.ratings.count = newCount,
        !.ratings.breakdown[rating] = @ + 1,
        !.statistics.projectsCompleted = @ + 1]

\* POST /api/jobs/:id/accept/:applicationId
AcceptApplicationHandler(u, applicationId) ==
  /\ phase = "lifecycle"
  /\ LET userId == authenticate(u).userId
         accepted == acceptApplication(job, applicationId)
     IN IF ~job.exists
          THEN /\ handled' = Answer("acceptApplication", u, 404, job, job)
               /\ UNCHANGED job
        ELSE IF NotOwner(job, userId)
          THEN /\ handled' = Answer("acceptApplication", u, 403, job, job)
               /\ UNCHANGED job
        ELSE IF job.status # "active"
          THEN /\ handled' = Answer("acceptApplication", u, 400, job, job)
               /\ UNCHANGED job
        ELSE IF ApplicationIndex(job, applicationId) = 0
          THEN /\ handled' = Answer("acceptApplication", u, 404, job, job)
               /\ UNCHANGED job
        ELSE /\ job' = accepted
             /\ handled' = Answer("acceptApplication", u, 200, job, accepted)
  /\ UNCHANGED <<providerDocs, applyRequests>>
  /\ UNCHANGED matchVars
  /\ UNCHANGED logVars
  /\ UNCHANGED outsideVars

\* req.body of POST /api/jobs/:id/complete: rating 0 stands for none given
CompleteBodies ==
  { [rating |-> 0, review |-> TRUE], [rating |-> 3, review |-> FALSE],
    [rating |-> 3, review |-> TRUE], [rating |-> 6, review |-> TRUE] }

\* POST /api/jobs/:id/complete.  providerSaves: whether loading and saving the
\* provider document succeed.  The job document is saved by job.completeJob
\* before the rating is set and saved, the provider after both.
CompleteJobHandler(u, body, providerSaves) ==
  /\ phase = "lifecycle"
  /\ LET userId == authenticate(u).userId
         completed == completeJob(job)
         rated == [completed EXCEPT !.completionDetails.clientRating = body.rating]
     IN IF ~job.exists
          THEN /\ handled' = Answer("completeJob", u, 404, job, job)
               /\ UNCHANGED <<job, providerDocs>>
        ELSE IF NotOwner(job, userId)
          THEN /\ handled' = Answer("completeJob", u, 403, job, job)
               /\ UNCHANGED <<job, providerDocs>>
        ELSE IF job.status # "in_progress"
          THEN /\ handled' = Answer("completeJob", u, 400, job, job)
               /\ UNCHANGED <<job, providerDocs>>
        ELSE IF ~(body.rating # 0 /\ body.review)
          THEN /\ job' = completed
               /\ handled' = Answer("completeJob", u, 200, job, completed)
               /\ UNCHANGED providerDocs
        ELSE IF body.rating \notin 1..5
          \* the second save fails the schema validation of clientRating.rating
          THEN /\ job' = completed
               /\ handled' = Answer("completeJob", u, 500, job, completed)
               /\ UNCHANGED providerDocs
        ELSE IF job.selectedProvider = 0
          THEN /\ job' = rated
               /\ handled' = Answer("completeJob", u, 200, job, rated)
               /\ UNCHANGED providerDocs
        ELSE IF ~providerSaves
          THEN /\ job' = rated
               /\ handled' = Answer("completeJob", u, 500, job, rated)
               /\ UNCHANGED providerDocs
        ELSE /\ job' = rated
             /\ handled' = Answer("completeJob", u, 200, job, rated)
             /\ providerDocs' =
                  [providerDocs EXCEPT ![job.selectedProvider] = RatedProvider(@, body.rating)]
  /\ UNCHANGED applyRequests
  /\ UNCHANGED matchVars
  /\ UNCHANGED logVars
  /\ UNCHANGED outsideVars


\* req.body of PUT /api/jobs/:id; no validation rule is attached to the route
UpdateBodies ==
  { [category |-> "Roofing"],
    [status |-> "completed"],
    [status |-> "active"],
    [selectedProvider |-> 2],
    [client |-> ObjectId(MaxClients)],
    [applications |-> << [_id |-> 1, provider |-> 1, status |-> "accepted"],
                         [_id |-> 2, provider |-> 2, status |-> "accepted"] >>] }

\* JobRequest.findByIdAndUpdate(id, { $set: updateData })
SetFields(jobDoc, updateData) ==
  [f \in DOMAIN jobDoc |-> IF f \in DOMAIN updateData THEN updateData[f] ELSE jobDoc[f]]

\* PUT /api/jobs/:id
UpdateJobHandler(u, body) ==
  /\ phase = "lifecycle"
  /\ LET userId == authenticate(u).userId
         updatedJob == SetFields(job, body)
     IN IF ~job.exists
          THEN /\ handled' = Answer("updateJob", u, 404, job, job)
               /\ UNCHANGED job
        ELSE IF NotOwner(job, userId)
          THEN /\ handled' = Answer("updateJob", u, 403, job, job)
               /\ UNCHANGED job
        ELSE IF job.status # "active" /\ job.status # "draft"
          THEN /\ handled' = Answer("updateJob", u, 400, job, job)
               /\ UNCHANGED job
        ELSE /\ job' = updatedJob
             /\ handled' = Answer("updateJob", u, 200, job, updatedJob)
  /\ UNCHANGED <<providerDocs, applyRequests>>
  /\ UNCHANGED matchVars
  /\ UNCHANGED logVars
  /\ UNCHANGED outsideVars

\* DELETE /api/jobs/:id
DeleteJobHandler(u) ==
  /\ phase = "lifecycle"
  /\ LET userId == authenticate(u).userId
         canceled == [job EXCEPT !.isActive = FALSE, !.status = "canceled"]
     IN IF ~job.exists
          THEN /\ handled' = Answer("deleteJob", u, 404, job, job)
               /\ UNCHANGED job
        ELSE IF NotOwner(job, userId)
          THEN /\ handled' = Answer("deleteJob", u, 403, job, job)
               /\ UNCHANGED job
        ELSE IF job.status = "in_progress" \/ job.status = "completed"
          THEN /\ handled' = Answer("deleteJob", u, 400, job, job)
               /\ UNCHANGED job
        ELSE /\ job' = canceled
             /\ handled' = Answer("deleteJob", u, 200, job, canceled)
  /\ UNCHANGED <<providerDocs, applyRequests>>
  /\ UNCHANGED matchVars
  /\ UNCHANGED logVars
  /\ UNCHANGED outsideVars

\* GET /api/jobs/:id/suggestions: suggestions are generated and saved when the
\* job has none and providers are nearby
GetJobSuggestionsHandler(u, nearbyProviders, o, rs) ==
  /\ phase = "lifecycle"
  /\ LET userId == authenticate(u).userId
         matches == matchJobWithProviders(job, nearbyProviders, o, rs)
         suggested == [job EXCEPT !.aiSuggestions = SuggestionsOf(matches)]
     IN IF ~job.exists
          THEN /\ handled' = Answer("getJobSuggestions", u, 404, job, job)
               /\ UNCHANGED job
        ELSE IF NotOwner(job, userId)
          THEN /\ handled' = Answer("getJobSuggestions", u, 403, job, job)
               /\ UNCHANGED job
        ELSE IF Len(job.aiSuggestions) = 0 /\ Len(nearbyProviders) > 0
          THEN /\ job' = suggested
               /\ handled' = Answer("getJobSuggestions", u, 200, job, suggested)
        ELSE /\ handled' = Answer("getJobSuggestions", u, 200, job, job)
             /\ UNCHANGED job
  /\ UNCHANGED <<providerDocs, applyRequests>>
  /\ UNCHANGED matchVars
  /\ UNCHANGED logVars
  /\ UNCHANGED outsideVars

\* POST /api/ai/match-job: reads the job, writes nothing
MatchJobHandler(u, valid) ==
  /\ phase = "lifecycle"
  /\ LET userId == authenticate(u).userId
     IN handled' =
          IF ~valid THEN Answer("matchJob", u, 400, job, job)
          ELSE IF ~job.exists THEN Answer("matchJob", u, 404, job, job)
          ELSE IF NotOwner(job, userId) THEN Answer("matchJob", u, 403, job, job)
          ELSE Answer("matchJob", u, 200, job, job)
  /\ UNCHANGED <<job, providerDocs, applyRequests>>
  /\ UNCHANGED matchVars
  /\ UNCHANGED logVars
  /\ UNCHANGED outsideVars

\* the service after start-up: no job yet, every provider user has a profile
InitLifecycle ==
  /\ phase = "lifecycle"
  /\ job = NoJob
  /\ providerDocs = [p \in 1..MaxAppliers |-> NewProviderDoc]
  /\ applyRequests = [r \in 1..MaxApply |-> [state |-> "idle"]]
  /\ handled = [handler |-> "none"]
  /\ openai \in BOOLEAN
  /\ jobCall = [called |-> FALSE]
  /\ envKey = [set |-> FALSE, prefix |-> "", len |-> 0]
  /\ isDemoMode = ~IsValidKey(ApiKey(envKey))
  /\ providers = << >>
  /\ preferences = [none |-> TRUE]
  /\ promises = << >>
  /\ aiCalls = 0
  /\ response = NoResponse
  /\ analysis = Requirements
  /\ completionOrder = << >>
  /\ scoreLog = << >>
  /\ matchLog = << >>
  /\ NoRouteRequest
  /\ NoNearbyCall

\* the outcomes of the completion request the matcher may see: an answer
\* that parses, a rejection
MatcherOutcomes ==
  IF openai
    THEN { [kind |-> "text", text |-> <<"{", "P", "}">>, payload |-> JobPayRanked],
           [kind |-> "error"] }
    ELSE { [kind |-> "none"] }

NextLifecycle ==
  \/ \E u \in Users : \E valid \in BOOLEAN : \E body \in CreateBodies :
       \E nearbyProviders \in NearbyForJob : \E o \in MatcherOutcomes :
         \E rs \in [1..Len(nearbyProviders) -> Randoms] :
           CreateJobHandler(u, valid, body, nearbyProviders, o, rs)
  \/ \E r \in 1..MaxApply : \E u \in Users : \E valid \in BOOLEAN :
       ApplyForJobLoad(r, u, valid)
  \/ \E r \in 1..MaxApply : ApplyForJobSave(r)
  \/ \E u \in Users : \E applicationId \in {1, 11, 99} :
       AcceptApplicationHandler(u, applicationId)
  \/ \E u \in Users : \E body \in CompleteBodies : \E providerSaves \in BOOLEAN :
       CompleteJobHandler(u, body, providerSaves)
  \/ \E u \in Users : \E body \in UpdateBodies : UpdateJobHandler(u, body)
  \/ \E u \in Users : DeleteJobHandler(u)
  \/ \E u \in Users : \E nearbyProviders \in NearbyForJob : \E o \in MatcherOutcomes :
       \E rs \in [1..Len(nearbyProviders) -> Randoms] :
         GetJobSuggestionsHandler(u, nearbyProviders, o, rs)
  \/ \E u \in Users : \E valid \in BOOLEAN : MatchJobHandler(u, valid)

SpecLifecycle == InitLifecycle /\ [][NextLifecycle]_vars


\* the handlers that check the job's owner
OwnerGated ==
  {"getJobSuggestions", "matchJob", "acceptApplication", "completeJob", "updateJob",
   "deleteJob"}

\* the last answer came from an owner check: the job existed and the request
\* was not turned down by the validation rules of its route
OwnerCheckRan ==
  /\ handled.handler \in OwnerGated
  /\ handled.before.exists
  /\ ~(handled.handler = "matchJob" /\ handled.status = 400)

\* C25: a request that reaches the owner check of getJobSuggestions, matchJob,
\* acceptApplication, completeJob, updateJob or deleteJob is answered 403
\* exactly when the authenticated user is not the job's client, and a 403
\* leaves the job as it was.
C25_OwnerCheckIffClient ==
  OwnerCheckRan
  => /\ (handled.status = 403) <=> (handled.user # handled.before.client.hex)
     /\ handled.status = 403 => handled.after = handled.before

\* C26: job.applications never holds two entries of the same provider, also
\* when applyForJob requests of one provider interleave.
C26_OneApplicationPerProvider ==
  job.exists
  => \A a \in 1..Len(job.applications) : \A b \in 1..Len(job.applications) :
       job.applications[a].provider = job.applications[b].provider => a = b

\* positions of the accepted applications of a job document
AcceptedApplications(jobDoc) ==
  { k \in 1..Len(jobDoc.applications) : jobDoc.applications[k].status = "accepted" }

\* C27: a job has at most one accepted application; when it has one, every
\* other application is rejected and selectedProvider is the provider of the
\* accepted one.
C27_SingleAcceptedApplication ==
  job.exists
  => /\ Cardinality(AcceptedApplications(job)) <= 1
     /\ \A k \in AcceptedApplications(job) :
          /\ job.selectedProvider = job.applications[k].provider
          /\ \A m \in 1..Len(job.applications) :
               m # k => job.applications[m].status = "rejected"

\* the status of the stored job, "none" while there is no document
StatusOf(jobDoc) == IF jobDoc.exists THEN jobDoc.status ELSE "none"

\* C28: the status follows the lifecycle: a job comes to be in_progress only
\* by acceptApplication on an active job, completed only by completeJob on an
\* in_progress job, canceled only by deleteJob on an active or draft job, and
\* a completed or canceled job keeps its status.
C28_StatusFollowsLifecycle ==
  [][ StatusOf(job') # StatusOf(job)
      => /\ StatusOf(job') = "in_progress"
              => StatusOf(job) = "active" /\ handled'.handler = "acceptApplication"
         /\ StatusOf(job') = "completed"
              => StatusOf(job) = "in_progress" /\ handled'.handler = "completeJob"
         /\ StatusOf(job') = "canceled"
              => StatusOf(job) \in {"active", "draft"} /\ handled'.handler = "deleteJob"
         /\ StatusOf(job) \notin {"completed", "canceled"} ]_vars


====
